---- MODULE Spec2Model ----
(***************************************************************************)
(* Model of the Activity JSON codec of stream-go (src/activity.go):        *)
(* Activity.MarshalJSON, Activity.UnmarshalJSON and the payload helpers    *)
(* String, TimeStamp, To, to1D, matchFeed and matchFeedWithToken.          *)
(*                                                                         *)
(* A Go string is a sequence of one-character strings.  A JSON value is a  *)
(* record with a tag t and one slot per JSON kind, so that values of       *)
(* different kinds stay comparable.                                        *)
(***************************************************************************)
EXTENDS Integers, Sequences, FiniteSets, TLC

(***************************************************************************)
(* Bounds of the model.                                                    *)
(***************************************************************************)
\* longest "to" string handed to the two matchers on its own
MaxLen == 6
\* longest inner list of a two-dimensional "to" value that is enumerated
MaxInner == 3
\* longest outer "to" list built from the sample entries
MaxTo == 2
\* most keys of a received JSON object
MaxKeys == 2

(***************************************************************************)
(* Strings.                                                                *)
(***************************************************************************)
\* \w of Go's regexp (ASCII letters, digits, underscore), on the characters
\* the model uses
WordChars ==
  {"a", "b", "c", "d", "e", "f", "g", "i", "j", "m", "n", "o", "r", "s", "t", "u",
   "v", "x", "k", "A", "C", "D", "E", "I", "O", "R", "T", "X", "_", "0", "1", "2", "3"}

\* the characters "to" strings are enumerated over
Alphabet == {"u", "1", ":", " "}

RECURSIVE StringsOfLen(_)
StringsOfLen(n) ==
  IF n = 0 THEN {<<>>}
  ELSE {Append(s, c) : s \in StringsOfLen(n - 1), c \in Alphabet}

StringsUpTo(n) == UNION {StringsOfLen(k) : k \in 0..n}

\* strings.ToLower, one character
LowerChar(c) ==
  CASE c = "A" -> "a" [] c = "C" -> "c" [] c = "D" -> "d" [] c = "E" -> "e"
    [] c = "I" -> "i" [] c = "O" -> "o" [] c = "R" -> "r" [] c = "T" -> "t"
    [] c = "X" -> "x" [] OTHER -> c

ToLowerIdentity(s) == s

\* strings.ToLower
ToLower(s) == [i \in 1..Len(s) |-> LowerChar(s[i])]

\* index of the first occurrence of character c in s, 0 when there is none
IndexOf(s, c) ==
  IF \E i \in 1..Len(s) : s[i] = c
  THEN CHOOSE i \in 1..Len(s) : s[i] = c /\ \A j \in 1..(i - 1) : s[j] # c
  ELSE 0

\* strings.Split(s, sep) for a one-character separator: always at least one piece
RECURSIVE Split(_, _)
Split(s, sep) ==
  LET i == IndexOf(s, sep)
  IN IF i = 0 THEN <<s>>
     ELSE <<SubSeq(s, 1, i - 1)>> \o Split(SubSeq(s, i + 1, Len(s)), sep)

AllWord(s, from, to) == \A k \in from..to : s[k] \in WordChars

\* the same without the closing anchor
MatchesFeedPrefix(s) ==
  \E i \in 2..(Len(s) - 1) :
    /\ s[i] = ":"
    /\ AllWord(s, 1, i - 1)
    /\ \E j \in (i + 1)..Len(s) : AllWord(s, i + 1, j)

\* regexp `^\w+:\w+$`
MatchesFeed(s) ==
  \E i \in 2..(Len(s) - 1) :
    /\ s[i] = ":"
    /\ AllWord(s, 1, i - 1)
    /\ AllWord(s, i + 1, Len(s))

\* regexp `^\w+:\w+ .*?$`: `.` is any character but a newline, `$` the end of
\* the text
MatchesFeedWithToken(s) ==
  \E i \in 2..(Len(s) - 2) :
    /\ s[i] = ":"
    /\ AllWord(s, 1, i - 1)
    /\ \E j \in (i + 2)..Len(s) :
         /\ s[j] = " "
         /\ AllWord(s, i + 1, j - 1)
         /\ \A k \in (j + 1)..Len(s) : s[k] # "\n"

(***************************************************************************)
(* Feed references (GeneralFeed pointers).  kind "nil" is the nil pointer,  *)
(* kind "panic" an index out of range while building the value.            *)
(***************************************************************************)
GeneralFeed(slug, id, tok) ==
  [kind |-> "feed", FeedSlug |-> slug, UserID |-> id, token |-> tok]

NilFeed == [kind |-> "nil", FeedSlug |-> <<>>, UserID |-> <<>>, token |-> <<>>]

PanicFeed == [kind |-> "panic", FeedSlug |-> <<>>, UserID |-> <<>>, token |-> <<>>]

matchFeed(to) ==
  IF MatchesFeed(to)
  THEN LET firstSplit == Split(to, ":")
       IN IF Len(firstSplit) < 2 THEN PanicFeed
          ELSE GeneralFeed(firstSplit[1], firstSplit[2], <<>>)
  ELSE NilFeed

matchFeedWithToken(to) ==
  IF MatchesFeedWithToken(to)
  THEN LET firstSplit == Split(to, ":")
       IN IF Len(firstSplit) < 2 THEN PanicFeed
          ELSE LET secondSplit == Split(firstSplit[2], " ")
               IN IF Len(secondSplit) < 2 THEN PanicFeed
                  ELSE GeneralFeed(firstSplit[1], secondSplit[1], secondSplit[2])
  ELSE NilFeed

(***************************************************************************)
(* JSON values (what a json.RawMessage holds) and encoding/json's decoding *)
(* of them into Go strings and slices.                                     *)
(***************************************************************************)
JNull == [t |-> "null", s |-> <<>>, n |-> 0, e |-> <<>>]

JStr(x) == [t |-> "str", s |-> x, n |-> 0, e |-> <<>>]

JNum(k) == [t |-> "num", s |-> <<>>, n |-> k, e |-> <<>>]

JArr(xs) == [t |-> "arr", s |-> <<>>, n |-> 0, e |-> xs]

\* json.Unmarshal into a string: JSON null leaves the zero value without an
\* error, any other non-string value leaves it with an UnmarshalTypeError
UnmarshalString(v) ==
  CASE v.t = "str" -> [err |-> FALSE, val |-> v.s]
    [] v.t = "null" -> [err |-> FALSE, val |-> <<>>]
    [] OTHER -> [err |-> TRUE, val |-> <<>>]

\* json.Unmarshal into a []string: the elements of a JSON array are decoded
\* one by one; a mismatching element is recorded as an error and left at its
\* zero value, and decoding goes on with the next element
UnmarshalStrings(v) ==
  CASE v.t = "arr" ->
         [err |-> \E i \in 1..Len(v.e) : UnmarshalString(v.e[i]).err,
          val |-> [i \in 1..Len(v.e) |-> UnmarshalString(v.e[i]).val]]
    [] v.t = "null" -> [err |-> FALSE, val |-> <<>>]
    [] OTHER -> [err |-> TRUE, val |-> <<>>]

\* json.Unmarshal into a [][]string
UnmarshalStrings2D(v) ==
  CASE v.t = "arr" ->
         [err |-> \E i \in 1..Len(v.e) : UnmarshalStrings(v.e[i]).err,
          val |-> [i \in 1..Len(v.e) |-> UnmarshalStrings(v.e[i]).val]]
    [] v.t = "null" -> [err |-> FALSE, val |-> <<>>]
    [] OTHER -> [err |-> TRUE, val |-> <<>>]

(***************************************************************************)
(* payload.to1D and payload.To                                             *)
(***************************************************************************)
joinColon(inner) ==
  IF Len(inner) = 2 THEN <<inner[1] \o <<":">> \o inner[2]>>
  ELSE IF Len(inner) = 1 THEN <<inner[1]>>
  ELSE <<>>

\* the flat string an inner list of the two-dimensional shape stands for
joinInner(inner) ==
  IF Len(inner) = 2 THEN <<inner[1] \o <<" ">> \o inner[2]>>
  ELSE IF Len(inner) = 1 THEN <<inner[1]>>
  ELSE <<>>

RECURSIVE flattenPairs(_)
flattenPairs(to2D) ==
  IF to2D = <<>> THEN <<>>
  ELSE (IF Len(to2D[1]) = 2 THEN joinInner(to2D[1]) ELSE <<>>)
         \o flattenPairs(Tail(to2D))

RECURSIVE flatten2D(_)
\* the loop over to2D
flatten2D(to2D) ==
  IF to2D = <<>> THEN <<>>
  ELSE joinInner(to2D[1]) \o flatten2D(Tail(to2D))

\* the first Unmarshal's partial result stays in to1D when it fails, and the
\* entries of the second shape are appended to it
to1D(raw) ==
  LET first == UnmarshalStrings(raw)
      second == UnmarshalStrings2D(raw)
  IN IF first.err /\ ~second.err
     THEN first.val \o flatten2D(second.val)
     ELSE first.val

\* the references one flat string appends: the no-token match, then the
\* with-token match
matchBoth(to) ==
  LET m1 == matchFeed(to)
      m2 == matchFeedWithToken(to)
  IN (IF m1.kind = "nil" THEN <<>> ELSE <<m1>>)
       \o (IF m2.kind = "nil" THEN <<>> ELSE <<m2>>)

RECURSIVE matchAll(_)
matchAll(tos) ==
  IF tos = <<>> THEN <<>>
  ELSE matchBoth(tos[1]) \o matchAll(Tail(tos))

\* payload.To: the references, and whether building one of them went out of
\* range
To(raw) ==
  LET found == matchAll(to1D(raw))
  IN [panic |-> \E i \in 1..Len(found) : found[i].kind = "panic",
      feed |-> found]

(***************************************************************************)
(* Time.  A time.Time is its wall-clock second sec, the microsecond micro  *)
(* and the nanoseconds nano below the microsecond, read in its location    *)
(* (utc or not).  The text of layout "2006-01-02T15:04:05.999999" is cut   *)
(* down to "T", one digit for the date and time to the second, and, when   *)
(* the fraction is not zero, "." and one digit for the microseconds.       *)
(***************************************************************************)
NilTime == [set |-> FALSE, sec |-> 0, micro |-> 0, nano |-> 0, utc |-> TRUE]

Time(sec, micro, nano, utc) ==
  [set |-> TRUE, sec |-> sec, micro |-> micro, nano |-> nano, utc |-> utc]

Digits == <<"0", "1", "2">>

IsDigit(c) == \E d \in 1..Len(Digits) : Digits[d] = c

DigitValue(c) == (CHOOSE d \in 1..Len(Digits) : Digits[d] = c) - 1

\* t.Format(layout): no zone in the layout, the fraction to the microsecond
\* with trailing zeros trimmed
Format(t) ==
  <<"T", Digits[t.sec + 1]>>
    \o (IF t.micro = 0 THEN <<>> ELSE <<".", Digits[t.micro + 1]>>)

\* time.Parse(layout, s): a time in UTC, or an error
Parse(s) ==
  IF Len(s) = 2 /\ s[1] = "T" /\ IsDigit(s[2])
  THEN [err |-> FALSE, val |-> Time(DigitValue(s[2]), 0, 0, TRUE)]
  ELSE IF Len(s) = 4 /\ s[1] = "T" /\ IsDigit(s[2]) /\ s[3] = "." /\ IsDigit(s[4])
  THEN [err |-> FALSE, val |-> Time(DigitValue(s[2]), DigitValue(s[4]), 0, TRUE)]
  ELSE [err |-> TRUE, val |-> NilTime]

\* payload.String
String(raw) == UnmarshalString(raw).val

\* payload.TimeStamp
TimeStamp(raw) ==
  LET strValue == UnmarshalString(raw)
  IN IF strValue.err THEN NilTime
     ELSE LET timeStamp == Parse(strValue.val)
          IN IF timeStamp.err THEN NilTime ELSE timeStamp.val

(***************************************************************************)
(* Go values held in the MetaData map: the dynamic type g and the JSON     *)
(* value j the value marshals to.                                          *)
(***************************************************************************)
GoNil == [g |-> "nil", j |-> JNull]

GoInt(k) == [g |-> "int", j |-> JNum(k)]

GoFloat(k) == [g |-> "float64", j |-> JNum(k)]

GoString(x) == [g |-> "string", j |-> JStr(x)]

\* json.Unmarshal of a raw value into an interface{}
UnmarshalInterface(raw) ==
  CASE raw.t = "null" -> GoNil
    [] raw.t = "num" -> [g |-> "float64", j |-> raw]
    [] raw.t = "str" -> [g |-> "string", j |-> raw]
    [] OTHER -> [g |-> "slice", j |-> raw]

(***************************************************************************)
(* The recognized keys of the wire object.                                 *)
(***************************************************************************)
kId == <<"i", "d">>
kActor == <<"a", "c", "t", "o", "r">>
kVerb == <<"v", "e", "r", "b">>
kObject == <<"o", "b", "j", "e", "c", "t">>
kOrigin == <<"o", "r", "i", "g", "i", "n">>
kTarget == <<"t", "a", "r", "g", "e", "t">>
kTime == <<"t", "i", "m", "e">>
kData == <<"d", "a", "t", "a">>
kForeignID == <<"f", "o", "r", "e", "i", "g", "n", "_", "i", "d">>
kTo == <<"t", "o">>

Recognized ==
  {kId, kActor, kVerb, kObject, kOrigin, kTarget, kTime, kData, kForeignID, kTo}

(***************************************************************************)
(* Activity                                                                *)
(***************************************************************************)
NilData == [set |-> FALSE, raw |-> JNull]

Data(raw) == [set |-> TRUE, raw |-> raw]

NoMetaData == [k \in {} |-> GoNil]

\* the zero Activity
Fresh ==
  [ID |-> <<>>, Actor |-> <<>>, Verb |-> <<>>, Object |-> <<>>, Target |-> <<>>,
   Origin |-> <<>>, TimeStamp |-> NilTime, ForeignID |-> <<>>, Data |-> NilData,
   MetaData |-> NoMetaData, To |-> <<>>]

\* Feed.FeedID().Value()
FeedIDValue(feed) == feed.FeedSlug \o <<":">> \o feed.UserID

\* Feed.Token()
Token(feed) == feed.token

\* the strings MarshalJSON renders the To list as
tosOf(a) ==
  [i \in 1..Len(a.To) |->
     IF Token(a.To[i]) # <<>>
     THEN FeedIDValue(a.To[i]) \o <<" ">> \o Token(a.To[i])
     ELSE FeedIDValue(a.To[i])]

fieldKeysUnguarded(a) ==
  {kActor, kVerb, kObject, kOrigin, kTime, kId, kTarget, kForeignID}
    \cup (IF a.Data.set THEN {kData} ELSE {})
    \cup (IF Len(tosOf(a)) > 0 THEN {kTo} ELSE {})

\* the keys MarshalJSON sets whatever the metadata holds
fieldKeys(a) ==
  {kActor, kVerb, kObject, kOrigin, kTime}
    \cup (IF a.ID # <<>> THEN {kId} ELSE {})
    \cup (IF a.Target # <<>> THEN {kTarget} ELSE {})
    \cup (IF a.Data.set THEN {kData} ELSE {})
    \cup (IF a.ForeignID # <<>> THEN {kForeignID} ELSE {})
    \cup (IF Len(tosOf(a)) > 0 THEN {kTo} ELSE {})

\* the value MarshalJSON sets for one of its own keys; now is time.Now()
fieldValue(a, key, now) ==
  CASE key = kActor -> JStr(a.Actor)
    [] key = kVerb -> JStr(a.Verb)
    [] key = kObject -> JStr(a.Object)
    [] key = kOrigin -> JStr(a.Origin)
    [] key = kId -> JStr(a.ID)
    [] key = kTarget -> JStr(a.Target)
    [] key = kData -> a.Data.raw
    [] key = kForeignID -> JStr(a.ForeignID)
    [] key = kTime -> JStr(Format(IF a.TimeStamp.set THEN a.TimeStamp ELSE now))
    [] key = kTo -> JArr([i \in 1..Len(tosOf(a)) |-> JStr(tosOf(a)[i])])

\* Activity.MarshalJSON: the metadata first, the fields over it
MarshalJSON(a, now) ==
  [ok |-> TRUE,
   obj |-> [key \in (DOMAIN a.MetaData) \cup fieldKeys(a) |->
              IF key \in fieldKeys(a) THEN fieldValue(a, key, now)
              ELSE a.MetaData[key].j]]

(***************************************************************************)
(* Activity.UnmarshalJSON.  b is what json.Unmarshal makes of the bytes:   *)
(* ok and the top-level object, or not ok.  order is the order in which    *)
(* the range over the rawPayload map visits its keys.                      *)
(***************************************************************************)
NotJSON == [ok |-> FALSE, obj |-> [k \in {} |-> JNull]]

Object(fields) == [ok |-> TRUE, obj |-> fields]

RECURSIVE SetToSeq(_)
\* the elements of a finite set, one after the other
SetToSeq(S) ==
  IF S = {} THEN <<>>
  ELSE LET x == CHOOSE y \in S : TRUE
       IN <<x>> \o SetToSeq(S \ {x})

RECURSIVE LastVisited(_, _)
\* the ways to pick, for each name, the key visited last among the keys that
\* lower-case to it
LastVisited(names, keys) ==
  IF names = {} THEN {{}}
  ELSE LET n == CHOOSE m \in names : TRUE
       IN {rest \cup {k} : rest \in LastVisited(names \ {n}, keys),
                           k \in {x \in keys : ToLower(x) = n}}

\* The orders a range over a map with these keys can take.  Only the order
\* among keys that lower-case to the same name changes what the loop leaves
\* behind, so one order stands for all the orders that agree on which key of
\* each such group comes last: the other keys first, then the last ones.
Orders(keys) ==
  {SetToSeq(keys \ last) \o SetToSeq(last) :
     last \in LastVisited({ToLower(k) : k \in keys}, keys)}

\* one iteration of the loop: st.a is the receiver, st.md the metadata map
decodeKey(st, key, value) ==
  LET lowerKey == ToLower(key)
      to == To(value)
  IN IF value.t = "null" THEN st
     ELSE CASE lowerKey = kId -> [st EXCEPT !.a.ID = String(value)]
            [] lowerKey = kActor -> [st EXCEPT !.a.Actor = String(value)]
            [] lowerKey = kVerb -> [st EXCEPT !.a.Verb = String(value)]
            [] lowerKey = kForeignID -> [st EXCEPT !.a.ForeignID = String(value)]
            [] lowerKey = kObject -> [st EXCEPT !.a.Object = String(value)]
            [] lowerKey = kOrigin -> [st EXCEPT !.a.Origin = String(value)]
            [] lowerKey = kTarget -> [st EXCEPT !.a.Target = String(value)]
            [] lowerKey = kTime -> [st EXCEPT !.a.TimeStamp = TimeStamp(value)]
            [] lowerKey = kData -> [st EXCEPT !.a.Data = Data(value)]
            [] lowerKey = kTo ->
                 IF to.panic THEN [st EXCEPT !.panic = TRUE]
                 ELSE [st EXCEPT !.a.To = to.feed]
            [] OTHER ->
                 [st EXCEPT !.md = (key :> UnmarshalInterface(value)) @@ st.md]

RECURSIVE decodeKeys(_, _, _)
decodeKeys(st, obj, order) ==
  IF order = <<>> \/ st.panic THEN st
  ELSE decodeKeys(decodeKey(st, order[1], obj[order[1]]), obj, Tail(order))

UnmarshalJSONKeepMetaData(a, b, order) ==
  IF ~b.ok THEN [a |-> a, err |-> "error"]
  ELSE LET st == decodeKeys([a |-> a, md |-> a.MetaData, panic |-> FALSE],
                            b.obj, order)
       IN IF st.panic THEN [a |-> st.a, err |-> "panic"]
          ELSE [a |-> [st.a EXCEPT !.MetaData = st.md], err |-> "nil"]

\* the receiver after the call and what the call returned: "nil", "error",
\* or "panic" when it did not return
UnmarshalJSON(a, b, order) ==
  IF ~b.ok THEN [a |-> a, err |-> "error"]
  ELSE LET st == decodeKeys([a |-> a, md |-> NoMetaData, panic |-> FALSE],
                            b.obj, order)
       IN IF st.panic THEN [a |-> st.a, err |-> "panic"]
          ELSE [a |-> [st.a EXCEPT !.MetaData = st.md], err |-> "nil"]

(***************************************************************************)
(* Inputs.                                                                 *)
(***************************************************************************)
sU == <<"u">>
s1 == <<"1">>
sT == <<"t">>
sX == <<"x">>
sU1 == <<"u", ":", "1">>
sU1T == <<"u", ":", "1", " ", "t">>
sUser == <<"u", "s", "e", "r">>
sUser1 == <<"u", "s", "e", "r", ":", "1">>
sUser2Tok == <<"u", "s", "e", "r", ":", "2", " ", "t", "o", "k", "1", "2", "3">>

\* the strings handed to the matchers one by one
MatchInputs == StringsUpTo(MaxLen) \cup {sUser1, sUser2Tok}

\* the elements inner lists are enumerated over
InnerElems == {JStr(sU), JStr(s1), JStr(sU1), JStr(sT), JNum(1), JNull}

RECURSIVE ListsOfLen(_, _)
ListsOfLen(set, n) ==
  IF n = 0 THEN {<<>>}
  ELSE {Append(l, x) : l \in ListsOfLen(set, n - 1), x \in set}

\* the sequences of at most n elements of set
ListsUpTo(set, n) == UNION {ListsOfLen(set, k) : k \in 0..n}

\* {"to": [["user","1"], ["user"]]}
ExampleTo2D == JArr(<<JArr(<<JStr(sUser), JStr(s1)>>), JArr(<<JStr(sUser)>>)>>)

\* {"to": ["user:1", "user:2 tok123"]}
ExampleTo1D == JArr(<<JStr(sUser1), JStr(sUser2Tok)>>)

\* the entries outer lists are built from
SampleEntries ==
  {JStr(sU1), JStr(sU1T), JStr(sU), JNum(1), JNull, JArr(<<>>),
   JArr(<<JStr(sU), JStr(s1)>>), JArr(<<JStr(sU)>>), JArr(<<JStr(sU1), JStr(sT)>>),
   JArr(<<JStr(sU1)>>), JArr(<<JStr(sU1), JStr(sT), JStr(sT)>>), JArr(<<JNum(1)>>)}

\* the "to" values handed to payload.To
ToValues ==
  {JArr(<<JArr(inner)>>) : inner \in ListsUpTo(InnerElems, MaxInner)}
    \cup {JArr(outer) : outer \in ListsUpTo(SampleEntries, MaxTo)}
    \cup {ExampleTo2D, ExampleTo1D, JStr(sU1), JNum(1), JNull}

(***************************************************************************)
(* The state: the caller's Activity a, the bytes b it exchanges with the   *)
(* service, what the last call returned, the receiver as it was before the *)
(* last UnmarshalJSON (pre), the outcome of decoding the same bytes into   *)
(* the same receiver once more (twin), and for the "to" parsers their last *)
(* input and result.                                                       *)
(***************************************************************************)
VARIABLES a, b, err, pre, twin, op, toStr, matched, toRaw, feeds

vars == <<a, b, err, pre, twin, op, toStr, matched, toRaw, feeds>>

codecVars == <<a, b, err, pre, twin>>

toVars == <<toStr, matched, toRaw, feeds>>

NoOutcome == [a |-> Fresh, err |-> "none"]

kOld == <<"o", "l", "d">>

\* an Activity that already holds values in every field
Populated ==
  [ID |-> <<"2">>, Actor |-> <<"b">>, Verb |-> <<"b">>, Object |-> <<"b">>,
   Target |-> <<"b">>, Origin |-> <<"b">>, TimeStamp |-> Time(2, 0, 0, TRUE),
   ForeignID |-> <<"b">>, Data |-> Data(JStr(<<"b">>)),
   MetaData |-> (kOld :> GoString(<<"b">>)),
   To |-> <<GeneralFeed(sU, <<"2">>, <<>>)>>]

\* the Activities json.Unmarshal is handed as receiver
Receivers == {Fresh, Populated}

NoMatch == [m1 |-> NilFeed, m2 |-> NilFeed]

NoFeeds == [panic |-> FALSE, feed |-> <<>>]

InitWith(receiver) ==
  /\ a = receiver
  /\ b = NotJSON
  /\ err = "none"
  /\ pre = Fresh
  /\ twin = NoOutcome
  /\ op = "init"
  /\ toStr = <<>>
  /\ matched = NoMatch
  /\ toRaw = JNull
  /\ feeds = NoFeeds

InitCommon == InitWith(Fresh)

(***************************************************************************)
(* The "to" parsers on their own: a behaviour is one call.                 *)
(***************************************************************************)
\* matchFeed and matchFeedWithToken on one string
Match(s) ==
  /\ op = "init"
  /\ toStr' = s
  /\ matched' = [m1 |-> matchFeed(s), m2 |-> matchFeedWithToken(s)]
  /\ op' = "match"
  /\ UNCHANGED <<codecVars, toRaw, feeds>>

\* payload.To on one raw value
ParseTo(raw) ==
  /\ op = "init"
  /\ toRaw' = raw
  /\ feeds' = To(raw)
  /\ op' = "to"
  /\ UNCHANGED <<codecVars, toStr, matched>>

NextTo ==
  \/ \E s \in MatchInputs : Match(s)
  \/ \E raw \in ToValues : ParseTo(raw)

SpecTo == InitCommon /\ [][NextTo]_vars

(***************************************************************************)
(* Round trip: the caller builds an Activity, encodes it, and decodes the  *)
(* bytes into a fresh Activity.  A behaviour is one such exchange.         *)
(***************************************************************************)
kExtra == <<"e", "x", "t", "r", "a">>
kACTOR == <<"A", "C", "T", "O", "R">>

\* the metadata maps of the Activities that are built
MetaDatas ==
  {NoMetaData,
   kExtra :> GoFloat(1),
   kExtra :> GoString(sX),
   kExtra :> GoInt(1),
   kExtra :> GoNil,
   kACTOR :> GoString(sX),
   kId :> GoString(sX),
   kTarget :> GoString(sX),
   kForeignID :> GoString(sX),
   kTo :> GoString(sX)}

\* the To lists of the Activities that are built
ToLists ==
  {<<>>,
   <<GeneralFeed(sU, s1, <<>>)>>,
   <<GeneralFeed(sU, s1, sT)>>,
   <<GeneralFeed(sU, s1, sT), GeneralFeed(sU, <<"2">>, <<>>)>>,
   <<GeneralFeed(sU, s1, <<"t", " ", "t">>)>>,
   <<GeneralFeed(<<"u", "-", "u">>, s1, <<>>)>>}

\* the timestamps of the Activities that are built
TimeStamps ==
  {NilTime, Time(1, 0, 0, TRUE), Time(1, 1, 0, TRUE), Time(1, 1, 1, TRUE),
   Time(1, 0, 0, FALSE)}

\* what time.Now() may return
Nows == {Time(0, 0, 0, FALSE), Time(2, 1, 1, FALSE)}

Activities ==
  {[ID |-> id, Actor |-> core, Verb |-> core, Object |-> core, Target |-> target,
    Origin |-> core, TimeStamp |-> ts, ForeignID |-> fid, Data |-> data,
    MetaData |-> md, To |-> to] :
     id \in {<<>>, s1}, core \in {<<>>, sX}, target \in {<<>>, sT},
     ts \in TimeStamps, fid \in {<<>>, sX}, data \in {NilData, Data(JNum(1))},
     md \in MetaDatas, to \in ToLists}

\* the caller builds an Activity
New(x) ==
  /\ op = "init"
  /\ a' = x
  /\ op' = "new"
  /\ UNCHANGED <<b, err, pre, twin, toVars>>

\* json.Marshal(a)
Marshal ==
  /\ op = "new"
  /\ \E now \in Nows : b' = MarshalJSON(a, now)
  /\ op' = "marshal"
  /\ UNCHANGED <<a, err, pre, twin, toVars>>

\* json.Unmarshal(b, &fresh): pre keeps the Activity that was encoded
UnmarshalFresh ==
  /\ op = "marshal"
  /\ \E order \in Orders(DOMAIN b.obj) :
       LET res == UnmarshalJSON(Fresh, b, order)
       IN a' = res.a /\ err' = res.err
  /\ pre' = a
  /\ op' = "roundtrip"
  /\ UNCHANGED <<b, twin, toVars>>

NextRoundTrip ==
  \/ \E x \in Activities : New(x)
  \/ Marshal
  \/ UnmarshalFresh

SpecRoundTrip == InitCommon /\ [][NextRoundTrip]_vars

(***************************************************************************)
(* Decoding: bytes arrive from the service and are decoded into the        *)
(* receiver, and, to compare two runs of the decoder, into the same        *)
(* receiver once more.  A behaviour is one such exchange.                  *)
(***************************************************************************)
kEXTRA == <<"E", "x", "t", "r", "a">>

WireKeys == Recognized \cup {kACTOR, kEXTRA}

\* the values a key of a received object is given
WireValues(key) ==
  CASE key \in {kId, kActor, kEXTRA} -> {JStr(sX), JNum(1), JNull}
    [] key = kACTOR -> {JStr(sT), JNull}
    [] key \in {kVerb, kObject, kOrigin, kTarget, kForeignID} -> {JStr(sX), JNum(1)}
    [] key = kTime -> {JStr(<<"T", "1", ".", "1">>), JStr(<<"n", "o">>), JNum(1), JNull}
    [] key = kData -> {JNum(1), JArr(<<>>), JNull}
    [] key = kTo -> {JArr(<<JStr(sU1)>>), JArr(<<JStr(sU1T), JStr(sU)>>),
                     JArr(<<JStr(sU1), JNum(1)>>),
                     JArr(<<JArr(<<JStr(sU1), JStr(sT)>>)>>),
                     JArr(<<>>), JStr(sU1), JNull}

RECURSIVE FieldsOfSize(_)
\* the objects with n keys
FieldsOfSize(n) ==
  IF n = 0 THEN {[k \in {} |-> JNull]}
  ELSE UNION {UNION {{(key :> v) @@ o : v \in WireValues(key)} :
                       key \in WireKeys \ DOMAIN o} :
                o \in FieldsOfSize(n - 1)}

\* what json.Unmarshal makes of the bytes that arrive
WireInputs ==
  {NotJSON} \cup {Object(o) : o \in UNION {FieldsOfSize(n) : n \in 0..MaxKeys}}

\* bytes arrive from the service
Receive(bytes) ==
  /\ op = "init"
  /\ b' = bytes
  /\ op' = "receive"
  /\ UNCHANGED <<a, err, pre, twin, toVars>>

\* json.Unmarshal(b, &a): pre keeps the receiver as it was
Unmarshal ==
  /\ op = "receive"
  /\ \E order \in Orders(DOMAIN b.obj) :
       LET res == UnmarshalJSON(a, b, order)
       IN a' = res.a /\ err' = res.err
  /\ pre' = a
  /\ op' = "unmarshal"
  /\ UNCHANGED <<b, twin, toVars>>

\* json.Unmarshal of the same bytes into a copy of the receiver as it was
UnmarshalAgain ==
  /\ op = "unmarshal"
  /\ \E order \in Orders(DOMAIN b.obj) : twin' = UnmarshalJSON(pre, b, order)
  /\ op' = "again"
  /\ UNCHANGED <<a, b, err, pre, toVars>>

Init == \E receiver \in Receivers : InitWith(receiver)

Next ==
  \/ \E bytes \in WireInputs : Receive(bytes)
  \/ Unmarshal
  \/ UnmarshalAgain

Spec == Init /\ [][Next]_vars

(***************************************************************************)
(* Properties of the "to" parsers (checked under SpecTo).                  *)
(***************************************************************************)
UpperOf ==
  {<<"a", "A">>, <<"c", "C">>, <<"d", "D">>, <<"e", "E">>, <<"i", "I">>,
   <<"o", "O">>, <<"r", "R">>, <<"t", "T">>, <<"x", "X">>}

\* x and y are equal compared case-insensitively
EqualFold(x, y) ==
  /\ Len(x) = Len(y)
  /\ \A i \in 1..Len(x) :
       x[i] = y[i] \/ <<x[i], y[i]>> \in UpperOf \/ <<y[i], x[i]>> \in UpperOf

RecognizedNames ==
  {kId, kActor, kVerb, kObject, kOrigin, kTarget, kTime, kData, kForeignID, kTo}

IsRecognized(key) == \E name \in RecognizedNames : EqualFold(key, name)

IsWord(s) == \A k \in 1..Len(s) : s[k] \in WordChars

\* word ":" word
IsFeedForm(s) ==
  LET i == IndexOf(s, ":")
  IN /\ i > 1
     /\ i < Len(s)
     /\ IsWord(SubSeq(s, 1, i - 1))
     /\ IsWord(SubSeq(s, i + 1, Len(s)))

\* word ":" word, one space, any remainder
IsTokenForm(s) ==
  LET j == IndexOf(s, " ")
  IN j > 0 /\ IsFeedForm(SubSeq(s, 1, j - 1))

BeforeColon(s) == SubSeq(s, 1, IndexOf(s, ":") - 1)

ColonToSpace(s) == SubSeq(s, IndexOf(s, ":") + 1, IndexOf(s, " ") - 1)

AfterSpace(s) == SubSeq(s, IndexOf(s, " ") + 1, Len(s))

\* the text after the first space up to the next space or colon
FirstTokenPiece(s) ==
  LET rest == AfterSpace(s)
      stops == {k \in 1..Len(rest) : rest[k] \in {" ", ":"}}
  IN IF stops = {} THEN rest
     ELSE SubSeq(rest, 1, (CHOOSE k \in stops : \A m \in stops : k <= m) - 1)

\* C5: for every string of the form word:word, one space, any remainder, the
\* with-token parser returns the slug before the first colon, the userID
\* between the colon and the first space, and as token the entire remainder
\* after that first space.
C5_TokenIsWholeRemainder ==
  (op = "match" /\ IsTokenForm(toStr)) =>
    matched.m2 = GeneralFeed(BeforeColon(toStr), ColonToSpace(toStr), AfterSpace(toStr))

\* what the code does for C5: the token stops at the next space or colon
C5_TokenIsFirstPiece ==
  (op = "match" /\ IsTokenForm(toStr)) =>
    matched.m2 = GeneralFeed(BeforeColon(toStr), ColonToSpace(toStr), FirstTokenPiece(toStr))

\* a call of the matchers on one string that finds both a no-token and a
\* with-token reference
MatchesBoth ==
  \E s \in MatchInputs :
    Match(s) /\ matched'.m1.kind = "feed" /\ matched'.m2.kind = "feed"

\* C9 as claimed: a single string can match both grammars, so that decoding
\* it appends two references (such a call is possible).
C9_SomeStringMatchesBoth == op = "init" => ENABLED MatchesBoth

IsFlatStringList(raw) ==
  raw.t = "arr" /\ \A i \in 1..Len(raw.e) : raw.e[i].t = "str"

\* C9 amended: no string matches both grammars, so a string of a flat list
\* appends at most one reference (the no-token grammar admits no space, the
\* with-token grammar needs one).
C9_AtMostOneReference ==
  /\ op = "match" => ~(matched.m1.kind = "feed" /\ matched.m2.kind = "feed")
  /\ (op = "to" /\ IsFlatStringList(toRaw)) => Len(feeds.feed) <= Len(toRaw.e)

C9_Witness ==
  /\ op = "to"
  /\ toRaw = ExampleTo1D
  /\ feeds.feed = <<GeneralFeed(sUser, s1, <<>>),
                    GeneralFeed(sUser, <<"2">>, <<"t", "o", "k", "1", "2", "3">>)>>

\* the value is a list of lists of strings (null standing for the empty
\* string or the empty list, as encoding/json reads it) and not a flat list
Is2DShape(raw) ==
  /\ raw.t = "arr"
  /\ \A i \in 1..Len(raw.e) :
       \/ raw.e[i].t = "null"
       \/ /\ raw.e[i].t = "arr"
          /\ \A k \in 1..Len(raw.e[i].e) : raw.e[i].e[k].t \in {"str", "null"}
  /\ \E i \in 1..Len(raw.e) : raw.e[i].t = "arr"

\* the strings of inner list i
InnerStrings(raw, i) ==
  IF raw.e[i].t = "null" THEN <<>>
  ELSE [k \in 1..Len(raw.e[i].e) |-> raw.e[i].e[k].s]

\* what a flat string contributes when it is decoded as a flat "to" entry
FlatContribution(s) == To(JArr(<<JStr(s)>>)).feed

InnerContribution(inner) ==
  IF Len(inner) = 2 THEN FlatContribution(inner[1] \o <<" ">> \o inner[2])
  ELSE IF Len(inner) = 1 THEN FlatContribution(inner[1])
  ELSE <<>>

RECURSIVE ContributionsFrom(_, _)
ContributionsFrom(raw, i) ==
  IF i > Len(raw.e) THEN <<>>
  ELSE InnerContribution(InnerStrings(raw, i)) \o ContributionsFrom(raw, i + 1)

\* C8: a value that decodes as a list of lists of strings and not as a flat
\* list yields, inner list by inner list and in their order, what the flat
\* string x + " " + y (two elements) or x (one element) would yield, and
\* nothing for inner lists of any other length.
C8_InnerListsAsFlatStrings ==
  (op = "to" /\ Is2DShape(toRaw)) =>
    /\ ~feeds.panic
    /\ feeds.feed = ContributionsFrom(toRaw, 1)

C8_Witness ==
  /\ op = "to"
  /\ toRaw = JArr(<<JArr(<<JStr(sU1), JStr(sT)>>), JArr(<<JStr(sU1)>>)>>)
  /\ feeds.feed = <<GeneralFeed(sU, s1, sT), GeneralFeed(sU, s1, <<>>)>>

MetaDataSet(x) == {<<k, x.MetaData[k].j>> : k \in DOMAIN x.MetaData}

SameActivity(x, y) ==
  /\ x.ID = y.ID
  /\ x.Actor = y.Actor
  /\ x.Verb = y.Verb
  /\ x.Object = y.Object
  /\ x.Target = y.Target
  /\ x.Origin = y.Origin
  /\ x.TimeStamp = y.TimeStamp
  /\ x.ForeignID = y.ForeignID
  /\ x.Data = y.Data
  /\ MetaDataSet(x) = MetaDataSet(y)
  /\ x.To = y.To

\* an Activity the wire format can carry: a timestamp in UTC to the
\* microsecond, metadata keys outside the recognized names with non-null
\* values as JSON decodes them, and to references of a word slug and a word
\* userID
OnWire(x) ==
  /\ x.TimeStamp.set /\ x.TimeStamp.utc /\ x.TimeStamp.nano = 0
  /\ \A k \in DOMAIN x.MetaData :
       ~IsRecognized(k) /\ x.MetaData[k].g \in {"float64", "string"}
  /\ \A i \in 1..Len(x.To) :
       /\ x.To[i].FeedSlug # <<>> /\ IsWord(x.To[i].FeedSlug)
       /\ x.To[i].UserID # <<>> /\ IsWord(x.To[i].UserID)

\* C1: for every Activity whose timestamp is set, decoding its encoding into
\* a fresh Activity reproduces every field: id, actor, verb, object, target,
\* origin, timestamp, foreignID, data, the metadata key/value set, and the to
\* references in their order.  Stated for the Activities the wire format can
\* carry, where nothing but the codec decides it.
C1_RoundTrip ==
  (op = "roundtrip" /\ OnWire(pre)) => (err = "nil" /\ SameActivity(a, pre))

\* the field an optional key of the encoding stands for is non-empty
FieldSet(x, key) ==
  CASE key = kId -> x.ID # <<>>
    [] key = kTarget -> x.Target # <<>>
    [] key = kForeignID -> x.ForeignID # <<>>
    [] key = kTo -> x.To # <<>>

OptionalKeys == {kId, kTarget, kForeignID, kTo}

\* C3 as claimed: whatever the metadata map, the encoding has the key id,
\* target, foreign_id or to if and only if the field is non-empty.
C3_KeyIffFieldSet ==
  op = "marshal" =>
    \A key \in OptionalKeys : (key \in DOMAIN b.obj) <=> FieldSet(a, key)

\* C3 amended: the encoding has the key id, target, foreign_id or to if and
\* only if the field is non-empty or the metadata map holds that key; with
\* the field empty and no such metadata key the output has no such key.
C3_KeyIffFieldOrMetaData ==
  op = "marshal" =>
    \A key \in OptionalKeys :
      (key \in DOMAIN b.obj) <=> (FieldSet(a, key) \/ key \in DOMAIN a.MetaData)

C3_Witness ==
  /\ op = "marshal"
  /\ a.ID = <<>> /\ a.To = <<>> /\ a.Target # <<>>
  /\ DOMAIN a.MetaData = {kExtra}
  /\ kTarget \in DOMAIN b.obj
  /\ kId \notin DOMAIN b.obj /\ kTo \notin DOMAIN b.obj

(***************************************************************************)
(* Properties of the decoder (checked under Spec).                         *)
(***************************************************************************)
\* the keys of the input that carry a value for the field called name
KeysFor(name) ==
  {k \in DOMAIN b.obj : EqualFold(k, name) /\ b.obj[k].t # "null"}

\* C2: after a successful decode no metadata key equals a recognized name
\* compared case-insensitively; a key such as "ACTOR" populates the actor
\* field and is not kept in metadata; every other non-null key is stored in
\* metadata under its original spelling.
C2_NoRecognizedKeyInMetaData ==
  (op = "unmarshal" /\ err = "nil") =>
    /\ \A k \in DOMAIN a.MetaData : ~IsRecognized(k)
    /\ \A k \in DOMAIN b.obj :
         (b.obj[k].t # "null" /\ ~IsRecognized(k)) =>
           (k \in DOMAIN a.MetaData /\ a.MetaData[k].j = b.obj[k])
    /\ KeysFor(kActor) = {kACTOR} =>
         (a.Actor = b.obj[kACTOR].s /\ kACTOR \notin DOMAIN a.MetaData)

C2_Witness ==
  /\ op = "unmarshal"
  /\ err = "nil"
  /\ b.ok
  /\ b.obj = (kACTOR :> JStr(sT)) @@ (kEXTRA :> JNum(1))
  /\ a.Actor = sT
  /\ DOMAIN a.MetaData = {kEXTRA}

\* the value is a list of strings (null standing for the empty string, as
\* encoding/json reads it)
IsFlatShape(raw) ==
  raw.t = "arr" /\ \A i \in 1..Len(raw.e) : raw.e[i].t \in {"str", "null"}

\* C6: decoding any top-level JSON object completes without an error and
\* without aborting; an unparseable or non-string time leaves the timestamp
\* unset, a non-string value for id, actor, verb, object, target, foreign_id
\* or origin yields the empty string, and a to value that is neither a list
\* of strings nor a list of lists of strings, or whose entries match no
\* grammar, yields an empty to list.
C6_FieldAnomaliesDegrade ==
  (op = "unmarshal" /\ b.ok) =>
    /\ err = "nil"
    /\ (KeysFor(kTime) # {}
          /\ \A k \in KeysFor(kTime) : b.obj[k].t # "str" \/ Parse(b.obj[k].s).err) =>
         ~a.TimeStamp.set
    /\ (KeysFor(kId) # {} /\ \A k \in KeysFor(kId) : b.obj[k].t # "str") => a.ID = <<>>
    /\ (KeysFor(kActor) # {} /\ \A k \in KeysFor(kActor) : b.obj[k].t # "str") =>
         a.Actor = <<>>
    /\ (KeysFor(kVerb) # {} /\ \A k \in KeysFor(kVerb) : b.obj[k].t # "str") =>
         a.Verb = <<>>
    /\ (KeysFor(kObject) # {} /\ \A k \in KeysFor(kObject) : b.obj[k].t # "str") =>
         a.Object = <<>>
    /\ (KeysFor(kTarget) # {} /\ \A k \in KeysFor(kTarget) : b.obj[k].t # "str") =>
         a.Target = <<>>
    /\ (KeysFor(kForeignID) # {}
          /\ \A k \in KeysFor(kForeignID) : b.obj[k].t # "str") =>
         a.ForeignID = <<>>
    /\ (KeysFor(kOrigin) # {} /\ \A k \in KeysFor(kOrigin) : b.obj[k].t # "str") =>
         a.Origin = <<>>
    /\ (KeysFor(kTo) # {}
          /\ \A k \in KeysFor(kTo) :
               \/ ~IsFlatShape(b.obj[k]) /\ ~Is2DShape(b.obj[k])
               \/ /\ IsFlatShape(b.obj[k])
                  /\ \A i \in 1..Len(b.obj[k].e) :
                       ~IsFeedForm(b.obj[k].e[i].s) /\ ~IsTokenForm(b.obj[k].e[i].s)) =>
         a.To = <<>>

\* C6 without its last part: what holds of the code
C6_ExceptMixedTo ==
  (op = "unmarshal" /\ b.ok) =>
    /\ err = "nil"
    /\ (KeysFor(kTime) # {}
          /\ \A k \in KeysFor(kTime) : b.obj[k].t # "str" \/ Parse(b.obj[k].s).err) =>
         ~a.TimeStamp.set
    /\ (KeysFor(kActor) # {} /\ \A k \in KeysFor(kActor) : b.obj[k].t # "str") =>
         a.Actor = <<>>
    /\ (KeysFor(kTo) # {}
          /\ \A k \in KeysFor(kTo) : b.obj[k].t # "arr") =>
         a.To = <<>>

\* C7: decoding the same bytes into a fresh Activity always yields the same
\* Activity, whatever the order in which the decoder visits the keys, also
\* when several keys are equal compared case-insensitively.
C7_DecodeIsDeterministic ==
  (op = "again" /\ pre = Fresh) => twin = [a |-> a, err |-> err]

\* no key of the input carries a value for the field called name
Untouched(name) == KeysFor(name) = {}

\* C10: decoding into an Activity that already holds values leaves every
\* recognized field whose key is absent or null in the input as it was,
\* replaces MetaData by a map built from the current input alone, and changes
\* nothing at all when the top-level parse fails.
C10_DecodeFrame ==
  op = "unmarshal" =>
    /\ err = "error" => a = pre
    /\ err = "nil" =>
         /\ Untouched(kId) => a.ID = pre.ID
         /\ Untouched(kActor) => a.Actor = pre.Actor
         /\ Untouched(kVerb) => a.Verb = pre.Verb
         /\ Untouched(kObject) => a.Object = pre.Object
         /\ Untouched(kTarget) => a.Target = pre.Target
         /\ Untouched(kOrigin) => a.Origin = pre.Origin
         /\ Untouched(kTime) => a.TimeStamp = pre.TimeStamp
         /\ Untouched(kForeignID) => a.ForeignID = pre.ForeignID
         /\ Untouched(kData) => a.Data = pre.Data
         /\ Untouched(kTo) => a.To = pre.To
         /\ DOMAIN a.MetaData =
              {k \in DOMAIN b.obj : b.obj[k].t # "null" /\ ~IsRecognized(k)}
         /\ \A k \in DOMAIN a.MetaData : a.MetaData[k].j = b.obj[k]

C10_Witness ==
  /\ op = "unmarshal"
  /\ err = "nil"
  /\ pre = Populated
  /\ b.obj = (kId :> JNull) @@ (kEXTRA :> JNum(1))
  /\ a.ID = <<"2">>
  /\ a.To = Populated.To
  /\ DOMAIN a.MetaData = {kEXTRA}

====
